---- MODULE Spec2Model ----
(***************************************************************************)
(* Model of deepcell_spots/dotnet_losses.py: smooth_l1 and the three loss  *)
(* methods of DotNetLosses.                                                *)
(*                                                                         *)
(* Tensor values are exact rationals <<numerator, denominator>> in lowest  *)
(* terms with a positive denominator; a denominator of 0 stands for the    *)
(* non-finite results of a division by zero (<<0, 0>> is NaN).  Rounding   *)
(* and underflow of K.floatx() are outside the model.                      *)
(***************************************************************************)
EXTENDS Integers, Sequences, FiniteSets

VARIABLES cfg, y_true, y_pred, ret

vars == <<cfg, y_true, y_pred, ret>>

(***************************************************************************)
(* Bounds of the model.                                                    *)
(***************************************************************************)
\* largest number of pixels batch * Ly * Lx of an offset tensor
MaxRegPixels == 3
\* largest number of pixels batch * Ly * Lx of a classification tensor
MaxClsPixels == 4
\* largest sigma handed to smooth_l1 when it is called on its own
MaxSigma == 3

(***************************************************************************)
(* Defaults of DotNetLosses.__init__.                                      *)
(***************************************************************************)
DefaultGamma == 2
DefaultSigma == 3
DefaultNClasses == 2
DefaultDPixels == 1

(***************************************************************************)
(* Float arithmetic, as exact rationals.                                   *)
(***************************************************************************)
Abs(n) == IF n < 0 THEN -n ELSE n

Sgn(n) == IF n < 0 THEN -1 ELSE IF n > 0 THEN 1 ELSE 0

RECURSIVE GCD(_, _)
GCD(a, b) == IF b = 0 THEN a ELSE GCD(b, a % b)

\* n / d with the common factor g taken out and the sign in the numerator
Reduced(n, d, g) == <<(Sgn(d) * n) \div g, Abs(d) \div g>>

Rat(n, d) ==
    IF d = 0 THEN <<Sgn(n), 0>>
    ELSE IF d = 1 THEN <<n, 1>>
    ELSE Reduced(n, d, GCD(Abs(n), Abs(d)))

RatOf(n) == <<n, 1>>

NaN == <<0, 0>>

Zero == <<0, 1>>

IsFinite(a) == a[2] # 0

RAdd(a, b) ==
    IF ~(IsFinite(a) /\ IsFinite(b)) THEN NaN
    ELSE IF a[1] = 0 THEN b
    ELSE IF b[1] = 0 THEN a
    ELSE Rat(a[1] * b[2] + b[1] * a[2], a[2] * b[2])

RNeg(a) == <<-a[1], a[2]>>

RSub(a, b) == RAdd(a, RNeg(b))

RMul(a, b) ==
    IF ~(IsFinite(a) /\ IsFinite(b)) THEN NaN
    ELSE IF a[1] = 0 \/ b[1] = 0 THEN <<0, 1>>
    ELSE Rat(a[1] * b[1], a[2] * b[2])

\* x / 0 is +inf, -inf or (0 / 0) NaN
RDiv(a, b) ==
    IF IsFinite(a) /\ IsFinite(b) THEN Rat(a[1] * b[2], a[2] * b[1])
    ELSE NaN

\* comparisons with a non-finite operand are false, as with NaN
RLess(a, b) == IsFinite(a) /\ IsFinite(b) /\ a[1] * b[2] < b[1] * a[2]

RLessEqual(a, b) == IsFinite(a) /\ IsFinite(b) /\ a[1] * b[2] <= b[1] * a[2]

RAbs(a) == <<Abs(a[1]), a[2]>>

RECURSIVE RPow(_, _)
RPow(a, n) == IF n = 0 THEN RatOf(1) ELSE RMul(a, RPow(a, n - 1))

\* the sum of the first n elements of s
RECURSIVE SumTo(_, _)
SumTo(s, n) == IF n = 0 THEN Zero ELSE RAdd(SumTo(s, n - 1), s[n])

\* K.sum of a flat tensor
KSum(s) == SumTo(s, Len(s))

Max(a, b) == IF a >= b THEN a ELSE b

(***************************************************************************)
(* Tensors of shape (batch, Ly, Lx, 2): a shape <<batch, Ly, Lx>> and the  *)
(* pair of channel values of every position <<b, y, x>>, 0-based.          *)
(***************************************************************************)
Positions(shape) == (0 .. shape[1] - 1) \X (0 .. shape[2] - 1) \X (0 .. shape[3] - 1)

NumPixels(shape) == shape[1] * shape[2] * shape[3]

\* the positions in row-major order, the order tf.where lists them in
RowMajor(shape) ==
    [k \in 1 .. NumPixels(shape) |->
        <<(k - 1) \div (shape[2] * shape[3]),
          ((k - 1) \div shape[3]) % shape[2],
          (k - 1) % shape[3]>>]

\* t[..., c]
Channel(t, c) == [shape |-> t.shape, data |-> [p \in DOMAIN t.data |-> t.data[p][c + 1]]]

Shapes(maxPixels) ==
    {s \in (1 .. maxPixels) \X (1 .. maxPixels) \X (1 .. maxPixels) :
        NumPixels(s) <= maxPixels}

Tensors(shape, pixelValues) ==
    {[shape |-> shape, data |-> f] : f \in [Positions(shape) -> pixelValues]}

(***************************************************************************)
(* smooth_l1                                                               *)
(***************************************************************************)
\* the quadratic branch 0.5 * sigma_squared * K.pow(regression_diff, 2)
QuadraticBranch(regression_diff, sigma_squared) ==
    RMul(RMul(Rat(1, 2), sigma_squared), RPow(regression_diff, 2))

\* mutant: the linear branch without the factor 0.5 of its offset
LinearBranch_no_half(regression_diff, sigma_squared) ==
    RSub(regression_diff, RDiv(RatOf(1), sigma_squared))

\* the linear branch regression_diff - 0.5 / sigma_squared
LinearBranch(regression_diff, sigma_squared) ==
    RSub(regression_diff, RDiv(Rat(1, 2), sigma_squared))

\* tf.where(K.less(regression_diff, 1.0 / sigma_squared), ., .)
BranchOf(regression_diff, sigma_squared) ==
    IF RLess(regression_diff, RDiv(RatOf(1), sigma_squared))
    THEN QuadraticBranch(regression_diff, sigma_squared)
    ELSE LinearBranch(regression_diff, sigma_squared)

\* one element of the result of smooth_l1
SmoothL1Element(t, p, sigma) == BranchOf(RAbs(RSub(t, p)), RPow(sigma, 2))

\* smooth_l1 of two flat tensors of one length; shapes that do not broadcast
\* raise
smooth_l1(yt, yp, sigma) ==
    IF Len(yt) # Len(yp)
    THEN [kind |-> "error"]
    ELSE [kind |-> "tensor",
          v |-> [k \in 1 .. Len(yt) |-> SmoothL1Element(yt[k], yp[k], sigma)]]

(***************************************************************************)
(* DotNetLosses.regression_loss                                            *)
(***************************************************************************)
\* d = 0.5 + d_pixels
Threshold(d_pixels) == RAdd(Rat(1, 2), RatOf(d_pixels))

\* mutant: the symmetric closed interval [-d, d]
near_pt_y_closed(y_offset_true, d) ==
    RLessEqual(RNeg(d), y_offset_true) /\ RLessEqual(y_offset_true, d)

near_pt_y(y_offset_true, d) ==
    RLessEqual(RNeg(d), y_offset_true) /\ RLess(y_offset_true, d)

near_pt_x(x_offset_true, d) ==
    RLessEqual(RNeg(d), x_offset_true) /\ RLess(x_offset_true, d)

\* tf.where(logical_and(near_pt_y, near_pt_x)): the selected positions of
\* y_true, in row-major order
near_pt_indices(yt, d) ==
    LET y_offset_true == Channel(yt, 0)
        x_offset_true == Channel(yt, 1)
        keep(p) == near_pt_y(y_offset_true.data[p], d) /\ near_pt_x(x_offset_true.data[p], d)
    IN  SelectSeq(RowMajor(yt.shape), keep)

InBounds(params, p) == p \in DOMAIN params.data

\* tf.gather_nd(params, indices).  An index outside params raises on a CPU
\* and reads as 0 on a GPU: oob is the outcome the device gives.
gather_nd(params, indices, oob) ==
    IF oob = "raise" /\ \E k \in 1 .. Len(indices) : ~InBounds(params, indices[k])
    THEN [kind |-> "error"]
    ELSE [kind |-> "tensor",
          v |-> [k \in 1 .. Len(indices) |->
                    IF InBounds(params, indices[k]) THEN params.data[indices[k]]
                    ELSE Zero]]

\* mutant: the number of positive pixels without the guard K.maximum(1, .)
normalizer_unguarded(indices) == RatOf(Len(indices))

\* mutant: the number of elements of the concatenated loss
normalizer_concat(indices) == RatOf(Max(1, 2 * Len(indices)))

\* normalizer = K.maximum(1, K.shape(near_pt_indices)[0]), cast to float
normalizer(indices) == RatOf(Max(1, Len(indices)))

\* the smooth l1 loss on the gathered offsets, summed and normalized
GatheredLoss(sigma, y_offset_true_cp, x_offset_true_cp, y_offset_pred_cp, x_offset_pred_cp, indices) ==
    IF y_offset_pred_cp.kind = "error" \/ x_offset_pred_cp.kind = "error"
    THEN [kind |-> "error"]
    ELSE LET pixelwise_loss_y == smooth_l1(y_offset_true_cp.v, y_offset_pred_cp.v, sigma)
             pixelwise_loss_x == smooth_l1(x_offset_true_cp.v, x_offset_pred_cp.v, sigma)
             loss == pixelwise_loss_y.v \o pixelwise_loss_x.v
         IN  [kind |-> "scalar",
              v |-> RDiv(KSum(loss), normalizer(indices)),
              near_pt_indices |-> indices]

\* the list s rotated by one place
Rotated(s) == IF s = <<>> THEN s ELSE Tail(s) \o <<Head(s)>>

\* mutant: the predicted offsets are gathered with another index list than
\* the ground-truth offsets
GatherAndScore_mispaired(self, yt, yp, oob, indices) ==
    GatheredLoss(self.sigma,
                 gather_nd(Channel(yt, 0), indices, oob),
                 gather_nd(Channel(yt, 1), indices, oob),
                 gather_nd(Channel(yp, 0), Rotated(indices), oob),
                 gather_nd(Channel(yp, 1), Rotated(indices), oob),
                 indices)

\* the four gathers at near_pt_indices and the loss on what they return
GatherAndScore(self, yt, yp, oob, indices) ==
    GatheredLoss(self.sigma,
                 gather_nd(Channel(yt, 0), indices, oob),
                 gather_nd(Channel(yt, 1), indices, oob),
                 gather_nd(Channel(yp, 0), indices, oob),
                 gather_nd(Channel(yp, 1), indices, oob),
                 indices)

regression_loss(self, yt, yp, oob) ==
    GatherAndScore(self, yt, yp, oob, near_pt_indices(yt, Threshold(self.d_pixels)))

\* what the device can do with the indices of yt in a gather from yp: only
\* an index outside yp leaves a choice
GatherOutcomes(yt, yp) ==
    IF Positions(yt.shape) \subseteq Positions(yp.shape) THEN {"raise"}
    ELSE {"raise", "zero"}

(***************************************************************************)
(* The weighted losses of deepcell.losses, which the classification        *)
(* methods call.  They are outside this repository: each is modelled as a  *)
(* per-pixel loss, sum over the classes of y_true * w(y_pred) / n_classes, *)
(* with a step table in place of -log.                                     *)
(***************************************************************************)
NegLog(p) ==
    IF RLessEqual(RatOf(1), p) THEN Zero
    ELSE IF RLessEqual(Rat(1, 2), p) THEN Rat(7, 10)
    ELSE RatOf(16)

weighted_categorical_crossentropy(yt, yp, n_classes) ==
    [p \in DOMAIN yt.data |->
        RDiv(KSum([c \in 1 .. n_classes |-> RMul(yt.data[p][c], NegLog(yp.data[p][c]))]),
             RatOf(n_classes))]

weighted_focal_loss(yt, yp, gamma, n_classes) ==
    [p \in DOMAIN yt.data |->
        RDiv(KSum([c \in 1 .. n_classes |->
                     RMul(yt.data[p][c],
                          RMul(RPow(RSub(RatOf(1), yp.data[p][c]), gamma),
                               NegLog(yp.data[p][c])))]),
             RatOf(n_classes))]

(***************************************************************************)
(* DotNetLosses.classification_loss                                        *)
(***************************************************************************)
\* the values of a per-position tensor, in row-major order
Flat(shape, data) == [k \in 1 .. NumPixels(shape) |-> data[RowMajor(shape)[k]]]

\* K.mean over every axis
KMean(shape, data) == RDiv(KSum(Flat(shape, data)), RatOf(NumPixels(shape)))

\* the focal loss as deepcell returns it, or the mean of the weighted cross
\* entropy
classification_loss(self, yt, yp) ==
    IF self.focal
    THEN [kind |-> "tensor",
          v |-> weighted_focal_loss(yt, yp, self.gamma, self.n_classes)]
    ELSE [kind |-> "scalar",
          v |-> KMean(yt.shape,
                      weighted_categorical_crossentropy(yt, yp, self.n_classes))]

(***************************************************************************)
(* DotNetLosses.classification_loss_regularized                            *)
(***************************************************************************)
\* K.mean(t[..., 1], axis=[1, 2]) of image b
SpatialMean(t, b) ==
    LET image == <<1, t.shape[2], t.shape[3]>>
    IN  RDiv(KSum([k \in 1 .. NumPixels(image) |->
                     t.data[<<b, RowMajor(image)[k][2], RowMajor(image)[k][3]>>][2]]),
             RatOf(NumPixels(image)))

\* mutant: the mean squared difference of the two channels, pixel by pixel
N_loss_pointwise(yt, yp) ==
    KMean(yt.shape,
          [p \in DOMAIN yt.data |-> RPow(RSub(yp.data[p][2], yt.data[p][2]), 2)])

\* N_diff = mean(y_pred[..., 1]) - mean(y_true[..., 1]) per image;
\* N_loss = K.mean(K.square(N_diff))
N_loss(yt, yp) ==
    LET N_diff == [b \in 0 .. yp.shape[1] - 1 |->
                      RSub(SpatialMean(yp, b), SpatialMean(yt, b))]
    IN  RDiv(KSum([k \in 1 .. yp.shape[1] |-> RPow(N_diff[k - 1], 2)]),
             RatOf(yp.shape[1]))

\* K.spatial_2d_padding(y_pred, ((1, 1), (1, 1)))[..., 1]: a border of zeros
\* around every image
y_pred_padded(yp) ==
    LET shape == <<yp.shape[1], yp.shape[2] + 2, yp.shape[3] + 2>>
    IN  [shape |-> shape,
         data |-> [p \in Positions(shape) |->
                     IF <<p[1], p[2] - 1, p[3] - 1>> \in DOMAIN yp.data
                     THEN yp.data[<<p[1], p[2] - 1, p[3] - 1>>][2]
                     ELSE Zero]]

\* K.sum(padded[:, 1:, :] * padded[:, :-1, :])
VerticalPairs(padded) ==
    LET shape == <<padded.shape[1], padded.shape[2] - 1, padded.shape[3]>>
    IN  KSum([k \in 1 .. NumPixels(shape) |->
                LET p == RowMajor(shape)[k]
                IN  RMul(padded.data[<<p[1], p[2] + 1, p[3]>>], padded.data[p])])

\* K.sum(padded[:, :, 1:] * padded[:, :, :-1])
HorizontalPairs(padded) ==
    LET shape == <<padded.shape[1], padded.shape[2], padded.shape[3] - 1>>
    IN  KSum([k \in 1 .. NumPixels(shape) |->
                LET p == RowMajor(shape)[k]
                IN  RMul(padded.data[<<p[1], p[2], p[3] + 1>>], padded.data[p])])

\* mutant: only the vertically adjacent pairs are summed
inter_loss_vertical_only(yp) ==
    RDiv(VerticalPairs(y_pred_padded(yp)), RatOf(yp.shape[1] * yp.shape[2] * yp.shape[3]))

\* the interaction term, divided by batch * Ly * Lx
inter_loss(yp) ==
    RDiv(RAdd(VerticalPairs(y_pred_padded(yp)), HorizontalPairs(y_pred_padded(yp))),
         RatOf(yp.shape[1] * yp.shape[2] * yp.shape[3]))

\* mutant: the count term is added unscaled
Penalty_mu_dropped(mu, n_loss, beta, i_loss) == RAdd(n_loss, RMul(beta, i_loss))

\* mu * N_loss + beta * inter_loss
Penalty(mu, n_loss, beta, i_loss) == RAdd(RMul(mu, n_loss), RMul(beta, i_loss))

\* loss + penalty; a scalar broadcasts over a per-pixel loss
AddScalar(loss, x) ==
    IF loss.kind = "tensor"
    THEN [kind |-> "tensor", v |-> [p \in DOMAIN loss.v |-> RAdd(loss.v[p], x)]]
    ELSE [kind |-> "scalar", v |-> RAdd(loss.v, x)]

\* what the method returns, with the two penalty terms it computed
Regularized(loss, mu, n_loss, beta, i_loss) ==
    [kind |-> loss.kind,
     v |-> AddScalar(loss, Penalty(mu, n_loss, beta, i_loss)).v,
     N_loss |-> n_loss,
     inter_loss |-> i_loss]

\* the loss the method computes before it adds the penalty terms
RegularizedBase(self, yt, yp) ==
    IF self.focal
    THEN [kind |-> "tensor",
          v |-> weighted_focal_loss(yt, yp, self.gamma, self.n_classes)]
    ELSE [kind |-> "scalar",
          v |-> KMean(yt.shape,
                      weighted_categorical_crossentropy(yt, yp, self.n_classes))]

classification_loss_regularized(self, yt, yp) ==
    Regularized(RegularizedBase(self, yt, yp), self.mu, N_loss(yt, yp), self.beta,
                inter_loss(yp))

(***************************************************************************)
(* State: the configuration of a DotNetLosses object, the pair of tensors  *)
(* of the current batch, and what each method returned for them.  The      *)
(* methods are pure, so a method is called once for a batch: a second call *)
(* would return the same value.                                            *)
(***************************************************************************)
Methods == {"smooth_l1", "regression_loss", "classification_loss",
            "classification_loss_regularized"}

NotCalled == [kind |-> "none"]

Config(sigma, focal, d_pixels, mu, beta) ==
    [gamma |-> DefaultGamma, sigma |-> sigma, n_classes |-> DefaultNClasses,
     focal |-> focal, d_pixels |-> d_pixels, mu |-> mu, beta |-> beta]

\* d_pixels of the configurations explored
DPixelsValues == {DefaultDPixels, DefaultDPixels + 1}

\* ground-truth offsets of a pixel: at the centre, on either boundary of
\* either axis, far away
TrueOffsets(d) ==
    {<<Zero, Zero>>, <<RNeg(d), Zero>>, <<Zero, RNeg(d)>>, <<d, Zero>>, <<Zero, d>>,
     <<RatOf(10), RatOf(10)>>}

PredOffsets == {<<Rat(1, 10), Rat(-1, 10)>>, <<Zero, RatOf(2)>>}

\* the pair of tensors as one tensor of <<true pixel, predicted pixel>>
Unzip(t, i) == [shape |-> t.shape, data |-> [p \in DOMAIN t.data |-> t.data[p][i]]]

InitReg ==
    /\ \E d_pixels \in DPixelsValues :
         /\ cfg = Config(RatOf(DefaultSigma), FALSE, d_pixels, Zero, Zero)
         /\ \E shape \in Shapes(MaxRegPixels) :
              \E both \in Tensors(shape, TrueOffsets(Threshold(d_pixels)) \X PredOffsets) :
                 /\ y_true = Unzip(both, 1)
                 /\ y_pred = Unzip(both, 2)
    /\ ret = [m \in Methods |-> NotCalled]

RegressionLoss ==
    /\ ret["regression_loss"] = NotCalled
    /\ \E oob \in GatherOutcomes(y_true, y_pred) :
         ret' = [ret EXCEPT !["regression_loss"] = regression_loss(cfg, y_true, y_pred, oob)]
    /\ UNCHANGED <<cfg, y_true, y_pred>>

NextReg == RegressionLoss

SpecReg == InitReg /\ [][NextReg]_vars

(***************************************************************************)
(* smooth_l1 called on its own, on differences at and around 1 / sigma^2.  *)
(***************************************************************************)
\* |y_true - y_pred| of the calls explored: 0, the transition point, and
\* the points half and a tenth of 1 / sigma^2 to either side of it
Diffs(sigma) ==
    LET t == RDiv(RatOf(1), RPow(sigma, 2))
    IN  {Zero, t, RMul(Rat(1, 2), t), RMul(Rat(3, 2), t), RMul(Rat(9, 10), t),
         RMul(Rat(11, 10), t)}

InitSL1 ==
    /\ \E sigma \in 1 .. MaxSigma :
         /\ cfg = Config(RatOf(sigma), FALSE, DefaultDPixels, Zero, Zero)
         /\ \E t \in {<<Zero, RatOf(1)>>, <<Rat(-1, 2), Rat(1, 3)>>} :
              \E dy \in Diffs(RatOf(sigma)), dx \in Diffs(RatOf(sigma)) :
                 \E sy \in {-1, 1}, sx \in {-1, 1} :
                    /\ y_true = [shape |-> <<1, 1, 1>>, data |-> [p \in Positions(<<1, 1, 1>>) |-> t]]
                    /\ y_pred = [shape |-> <<1, 1, 1>>,
                                 data |-> [p \in Positions(<<1, 1, 1>>) |->
                                             <<RAdd(t[1], RMul(RatOf(sy), dy)),
                                               RAdd(t[2], RMul(RatOf(sx), dx))>>]]
    /\ ret = [m \in Methods |-> NotCalled]

\* smooth_l1(y_true, y_pred, sigma) on the two offsets of the pixel
SmoothL1 ==
    /\ ret["smooth_l1"] = NotCalled
    /\ ret' = [ret EXCEPT !["smooth_l1"] =
                  smooth_l1(y_true.data[<<0, 0, 0>>], y_pred.data[<<0, 0, 0>>], cfg.sigma)]
    /\ UNCHANGED <<cfg, y_true, y_pred>>

NextSL1 == SmoothL1

SpecSL1 == InitSL1 /\ [][NextSL1]_vars

(***************************************************************************)
(* The classification methods on one-hot ground truth and predicted class  *)
(* probabilities.                                                          *)
(***************************************************************************)
OneHot == {<<RatOf(1), Zero>>, <<Zero, RatOf(1)>>}

Probabilities == {<<RatOf(1), Zero>>, <<Rat(1, 2), Rat(1, 2)>>, <<Zero, RatOf(1)>>}

\* the pairs <<mu, beta>> of the configurations explored
MuBetaValues == {<<Zero, Zero>>, <<RatOf(2), RatOf(3)>>}

InitCls ==
    /\ \E focal \in BOOLEAN, mb \in MuBetaValues :
         cfg = Config(RatOf(DefaultSigma), focal, DefaultDPixels, mb[1], mb[2])
    /\ \E shape \in Shapes(MaxClsPixels) :
         /\ y_true \in Tensors(shape, OneHot)
         /\ y_pred \in Tensors(shape, Probabilities)
    /\ ret = [m \in Methods |-> NotCalled]

ClassificationLoss ==
    /\ ret["classification_loss"] = NotCalled
    /\ ret' = [ret EXCEPT !["classification_loss"] = classification_loss(cfg, y_true, y_pred)]
    /\ UNCHANGED <<cfg, y_true, y_pred>>

ClassificationLossRegularized ==
    /\ ret["classification_loss_regularized"] = NotCalled
    /\ ret' = [ret EXCEPT !["classification_loss_regularized"] =
                  classification_loss_regularized(cfg, y_true, y_pred)]
    /\ UNCHANGED <<cfg, y_true, y_pred>>

NextCls == ClassificationLoss \/ ClassificationLossRegularized

SpecCls == InitCls /\ [][NextCls]_vars

(***************************************************************************)
(* Offset tensors whose pixels are at the centre of a dot, a pixel away     *)
(* from it (within the default neighbourhood), or outside the              *)
(* neighbourhood.                                                          *)
(***************************************************************************)
InitNear ==
    /\ cfg = Config(RatOf(DefaultSigma), FALSE, DefaultDPixels, Zero, Zero)
    /\ \E shape \in Shapes(MaxRegPixels) :
         /\ y_true \in Tensors(shape, {<<Zero, Zero>>, <<RatOf(1), RatOf(-1)>>,
                                       <<Threshold(DefaultDPixels), Zero>>})
         /\ y_pred \in Tensors(shape, PredOffsets)
    /\ ret = [m \in Methods |-> NotCalled]

SpecNear == InitNear /\ [][NextReg]_vars

(***************************************************************************)
(* Offset tensors whose shapes may differ.                                 *)
(***************************************************************************)
InitShape ==
    /\ cfg = Config(RatOf(DefaultSigma), FALSE, DefaultDPixels, Zero, Zero)
    /\ \E st \in Shapes(MaxRegPixels), sp \in Shapes(MaxRegPixels) :
         /\ y_true \in Tensors(st, {<<Zero, Zero>>, <<RatOf(10), RatOf(10)>>})
         /\ y_pred \in Tensors(sp, PredOffsets)
    /\ ret = [m \in Methods |-> NotCalled]

SpecShape == InitShape /\ [][NextReg]_vars

(***************************************************************************)
(* Claims about regression_loss.                                           *)
(***************************************************************************)
RegCalled == ret["regression_loss"].kind # "none"

RegReturned == ret["regression_loss"].kind = "scalar"

\* v lies in the half-open interval [-d, d)
InHalfOpen(v, d) == RLessEqual(RNeg(d), v) /\ RLess(v, d)

\* the positions of y_true whose two offsets lie in [-d, d)
NearPositions ==
    {p \in Positions(y_true.shape) :
        /\ InHalfOpen(y_true.data[p][1], Threshold(cfg.d_pixels))
        /\ InHalfOpen(y_true.data[p][2], Threshold(cfg.d_pixels))}

\* sum of smooth_l1 on the delta_y pair plus smooth_l1 on the delta_x pair
\* over a set of positions
RECURSIVE PairLossSum(_)
PairLossSum(ps) ==
    IF ps = {} THEN Zero
    ELSE LET p == CHOOSE q \in ps : TRUE
         IN  RAdd(RAdd(SmoothL1Element(y_true.data[p][1], y_pred.data[p][1], cfg.sigma),
                       SmoothL1Element(y_true.data[p][2], y_pred.data[p][2], cfg.sigma)),
                  PairLossSum(ps \ {p}))

\* C2: when no pixel of the batch is selected, regression_loss returns
\* exactly 0 (not NaN), whatever the predicted offsets are.
C2_NoSelectionReturnsZero ==
    (RegCalled /\ NearPositions = {}) =>
        (RegReturned /\ ret["regression_loss"].v = Zero)

C2_Witness ==
    /\ RegReturned
    /\ NearPositions = {}
    /\ NumPixels(y_true.shape) >= 2
    /\ ret["regression_loss"].v = Zero

\* C3: regression_loss returns the sum over the selected pixels of the two
\* smooth_l1 terms divided by max(1, N), N the number of selected pixels;
\* with one selected pixel of true offset (0, 0), predicted offset
\* (0.1, -0.1) and sigma = 3 that is 0.045 + 0.045.
C3_SumOverMaxOneN ==
    RegCalled =>
        /\ RegReturned
        /\ ret["regression_loss"].v =
               RDiv(PairLossSum(NearPositions), RatOf(Max(1, Cardinality(NearPositions))))
        /\ (/\ cfg.sigma = RatOf(3)
            /\ \E p \in Positions(y_true.shape) :
                 /\ NearPositions = {p}
                 /\ y_true.data[p] = <<Zero, Zero>>
                 /\ y_pred.data[p] = <<Rat(1, 10), Rat(-1, 10)>>)
           => ret["regression_loss"].v = Rat(9, 100)

C3_Witness ==
    /\ RegReturned
    /\ cfg.sigma = RatOf(3)
    /\ NumPixels(y_true.shape) = 3
    /\ \E p \in Positions(y_true.shape) :
         /\ NearPositions = {p}
         /\ y_true.data[p] = <<Zero, Zero>>
         /\ y_pred.data[p] = <<Rat(1, 10), Rat(-1, 10)>>
         /\ \A q \in Positions(y_true.shape) \ {p} :
              y_true.data[q] = <<RatOf(10), RatOf(10)>>
    /\ ret["regression_loss"].v = Rat(9, 100)

\* C4: a call whose y_true and y_pred differ in shape ends in a shape error
\* and returns no loss value; in particular regression_loss returns no
\* scalar when y_pred is larger than y_true in batch, height or width.
C4_ShapeMismatchRaises ==
    (/\ RegCalled
     /\ y_true.shape # y_pred.shape
     /\ \A i \in 1 .. 3 : y_pred.shape[i] >= y_true.shape[i])
        => ret["regression_loss"].kind = "error"

\* the permutations of the positions of a shape
PositionPermutations(shape) ==
    {f \in [Positions(shape) -> Positions(shape)] :
        \A p, q \in Positions(shape) : f[p] = f[q] => p = q}

Permuted(t, f) == [shape |-> t.shape, data |-> [p \in DOMAIN t.data |-> t.data[f[p]]]]

\* C8: permuting the (batch, y, x) positions of y_true and y_pred alike
\* leaves the returned scalar unchanged.
C8_PermutationInvariant ==
    RegCalled =>
        \A f \in PositionPermutations(y_true.shape) :
            LET other == regression_loss(cfg, Permuted(y_true, f), Permuted(y_pred, f), "raise")
            IN  /\ other.kind = ret["regression_loss"].kind
                /\ other.v = ret["regression_loss"].v

C8_Witness ==
    /\ RegReturned
    /\ Cardinality(NearPositions) = 3
    /\ \E f \in PositionPermutations(y_true.shape) :
         /\ Permuted(y_true, f) # y_true
         /\ Permuted(y_pred, f) # y_pred
    /\ ret["regression_loss"].v # Zero

\* C9: the loss is computed only over the pixels that contain a dot, those
\* whose ground-truth delta_y and delta_x are both at most 0.5 in absolute
\* value; any other pixel is left out of the sum and of the normalizer.
C9_OnlyPixelsWithADot ==
    RegCalled =>
        /\ RegReturned
        /\ \A k \in 1 .. Len(ret["regression_loss"].near_pt_indices) :
             LET p == ret["regression_loss"].near_pt_indices[k]
             IN  /\ RLessEqual(RAbs(y_true.data[p][1]), Rat(1, 2))
                 /\ RLessEqual(RAbs(y_true.data[p][2]), Rat(1, 2))

\* the set of the elements of a sequence
Range(s) == {s[k] : k \in 1 .. Len(s)}

SL1Called == ret["smooth_l1"].kind = "tensor"

\* the transition point 1 / sigma^2 of the configured sigma
TransitionPoint == RDiv(RatOf(1), RPow(cfg.sigma, 2))

\* the slope of a branch across [r - h, r + h]; for a polynomial of degree
\* at most 2 it is the derivative at r
QuadraticSlope(r, h) ==
    RDiv(RSub(QuadraticBranch(RAdd(r, h), RPow(cfg.sigma, 2)),
              QuadraticBranch(RSub(r, h), RPow(cfg.sigma, 2))),
         RMul(RatOf(2), h))

LinearSlope(r, h) ==
    RDiv(RSub(LinearBranch(RAdd(r, h), RPow(cfg.sigma, 2)),
              LinearBranch(RSub(r, h), RPow(cfg.sigma, 2))),
         RMul(RatOf(2), h))

SlopeSteps == {Rat(1, 2), Rat(1, 4), Rat(1, 10)}

\* C5: at r = 1 / sigma^2 the two branch formulas of smooth_l1 give the same
\* value and both have derivative 1, so the returned loss has no jump
\* there: it differs from the value at the transition by at most the
\* distance of |y_true - y_pred| from the transition.
C5_BranchesMeetSmoothly ==
    /\ QuadraticBranch(TransitionPoint, RPow(cfg.sigma, 2))
           = LinearBranch(TransitionPoint, RPow(cfg.sigma, 2))
    /\ \A h \in SlopeSteps :
         /\ QuadraticSlope(TransitionPoint, h) = RatOf(1)
         /\ LinearSlope(TransitionPoint, h) = RatOf(1)
    /\ SL1Called =>
         \A k \in 1 .. 2 :
            LET r == RAbs(RSub(y_true.data[<<0, 0, 0>>][k], y_pred.data[<<0, 0, 0>>][k]))
                atTransition == QuadraticBranch(TransitionPoint, RPow(cfg.sigma, 2))
            IN  RLessEqual(RAbs(RSub(ret["smooth_l1"].v[k], atTransition)),
                           RAbs(RSub(r, TransitionPoint)))

C5_Witness ==
    /\ SL1Called
    /\ cfg.sigma = RatOf(3)
    /\ RAbs(RSub(y_true.data[<<0, 0, 0>>][1], y_pred.data[<<0, 0, 0>>][1])) = Rat(1, 9)
    /\ RAbs(RSub(y_true.data[<<0, 0, 0>>][2], y_pred.data[<<0, 0, 0>>][2])) = Rat(1, 10)
    /\ ret["smooth_l1"].v = <<Rat(1, 18), Rat(9, 200)>>

(***************************************************************************)
(* Claims about the classification methods.                                *)
(***************************************************************************)
ClsCalled == ret["classification_loss"].kind # "none"

ClsRegCalled == ret["classification_loss_regularized"].kind # "none"

\* C1: with mu = 0 and beta = 0, classification_loss_regularized returns
\* exactly what classification_loss returns for the same configuration and
\* the same pair of tensors, whether focal is set or not.
C1_RegularizedEqualsPlain ==
    (ClsCalled /\ ClsRegCalled /\ cfg.mu = Zero /\ cfg.beta = Zero) =>
        /\ ret["classification_loss_regularized"].kind = ret["classification_loss"].kind
        /\ ret["classification_loss_regularized"].v = ret["classification_loss"].v

C1_Witness ==
    /\ ClsCalled
    /\ ClsRegCalled
    /\ cfg.mu = Zero
    /\ cfg.beta = Zero
    /\ cfg.focal
    /\ ret["classification_loss_regularized"].N_loss # Zero
    /\ ret["classification_loss_regularized"].inter_loss # Zero
    /\ \E p \in Positions(y_true.shape) : ret["classification_loss"].v[p] # Zero
    /\ ret["classification_loss_regularized"].v = ret["classification_loss"].v

\* two positions of one image that share an edge
Adjacent(p, q) ==
    /\ p[1] = q[1]
    /\ Abs(p[2] - q[2]) + Abs(p[3] - q[3]) = 1

\* C6: the interaction term is exactly 0 when the predicted class-1 channel
\* is zero everywhere, and strictly positive when two 4-adjacent pixels of
\* one image both have positive predicted class-1 values.
C6_InteractionTerm ==
    ClsRegCalled =>
        /\ (\A p \in Positions(y_pred.shape) : y_pred.data[p][2] = Zero)
               => ret["classification_loss_regularized"].inter_loss = Zero
        /\ (\E p, q \in Positions(y_pred.shape) :
               /\ Adjacent(p, q)
               /\ RLess(Zero, y_pred.data[p][2])
               /\ RLess(Zero, y_pred.data[q][2]))
               => RLess(Zero, ret["classification_loss_regularized"].inter_loss)

C6_Witness ==
    /\ ClsRegCalled
    /\ y_pred.shape = <<1, 2, 2>>
    /\ RLess(Zero, y_pred.data[<<0, 0, 0>>][2])
    /\ RLess(Zero, y_pred.data[<<0, 0, 1>>][2])
    /\ y_pred.data[<<0, 1, 0>>][2] = Zero
    /\ y_pred.data[<<0, 1, 1>>][2] = Zero
    /\ RLess(Zero, ret["classification_loss_regularized"].inter_loss)

\* the sum of the class-1 channel of t over a set of positions
RECURSIVE ClassOneSum(_, _)
ClassOneSum(t, ps) ==
    IF ps = {} THEN Zero
    ELSE LET p == CHOOSE q \in ps : TRUE
         IN  RAdd(t.data[p][2], ClassOneSum(t, ps \ {p}))

\* the spatial mean of the class-1 channel of image b of t
ImageMean(t, b) ==
    RDiv(ClassOneSum(t, {p \in Positions(t.shape) : p[1] = b}),
         RatOf(t.shape[2] * t.shape[3]))

EqualImageMeans ==
    \A b \in 0 .. y_true.shape[1] - 1 : ImageMean(y_pred, b) = ImageMean(y_true, b)

\* C7: the count-mismatch term is exactly 0 whenever, in every image of the
\* batch, the predicted and the ground-truth class-1 channels have the same
\* spatial mean, even if they differ pixel by pixel.
C7_CountTermZero ==
    (ClsRegCalled /\ EqualImageMeans) =>
        ret["classification_loss_regularized"].N_loss = Zero

C7_Witness ==
    /\ ClsRegCalled
    /\ y_true.shape[1] = 2
    /\ EqualImageMeans
    /\ \A b \in 0 .. y_true.shape[1] - 1 :
         \E p \in Positions(y_true.shape) :
            p[1] = b /\ y_pred.data[p][2] # y_true.data[p][2]
    /\ ret["classification_loss_regularized"].N_loss = Zero

====
